---- MODULE Spec2Model ----
(***************************************************************************)
(* Model of measure-syft.py: the campaign driver main() and the functions  *)
(* it calls.  Every external interaction (HTTP lookup, git, make, the syft *)
(* binary) is one step whose outcome is chosen by the environment.         *)
(***************************************************************************)
EXTENDS Integers, Sequences, FiniteSets, TLC

\* ---------------------------------------------------------------- bounds
MaxCommits == 2     \* commits on main after the release tag
MaxDur == 2         \* a timed run lasts 1..MaxDur time units
MaxClock == 1       \* the wall clock reads 0..MaxClock seconds

\* ------------------------------------------------------ program constants
iterations == 5     \* CONFIG['iterations']

NoPr == ""          \* args.pr when the flag is absent (falsy)
PrBranch == "feat/x"
Release == "v1.2.0" \* the tag_name the release endpoint answers with
NoRev == "none"     \* no revision: nothing checked out / no binary on disk
NoHash == ""
Placeholder == "-"

\* The full hashes of the commits after the tag, oldest first, and their
\* subject lines.
FullHashes == <<"abcdef1000", "abcdef2000", "abcdef3000", "abcdef4000">>
Subjects == <<"s1", "s2", "s3", "s4">>

\* the two oldest commits of the main line; the release tag is on one of them
RootCommit == "abcdefa000"
TagCommit == "abcdef0000"

\* the commit of the PR branch when it has commits of its own
PrCommit == "abcdefb000"

\* full_hash[:7]
ShortHash(full) ==
    CASE full = "abcdef1000" -> "abcdef1"
      [] full = "abcdef2000" -> "abcdef2"
      [] full = "abcdef3000" -> "abcdef3"
      [] full = "abcdef4000" -> "abcdef4"
      [] full = "abcdef0000" -> "abcdef0"
      [] full = "abcdefa000" -> "abcdefa"
      [] full = "abcdefb000" -> "abcdefb"
      [] OTHER -> full

Durations == 1..MaxDur

VARIABLES
    pc,            \* the statement main() is at
    site,          \* which revision of main()'s plan is being prepared/measured
    args_pr,       \* args.pr
    nAfter,        \* repository: number of commits after the release tag
    cloned,        \* (build_path / '.git').exists()
    version,       \* main()'s local `version`
    build_path,    \* is main()'s local `build_path` bound?
    head,          \* the revision the working copy is checked out to
    binary,        \* the revision the file at binary_path was built from
    current_run,   \* CONFIG['current_run']
    i,             \* run_performance_test's loop variable: iterations begun
    times,         \* run_performance_test's local `times`
    results,       \* main()'s local `results`
    main_results,  \* main()'s local `main_results`
    pr_results,    \* main()'s local `pr_results`
    commits,       \* main()'s local `commits`
    ci,            \* position of the for loop over `commits`
    reportExists,  \* report_path exists on disk
    report,        \* content of the report file: a sequence of blocks
    exitStatus,    \* process exit status, -1 while running
    err,           \* the exception that reached main()'s handler
    failedAt,      \* the statement that raised it
    runLog,        \* history: the run_syft_test calls of the current revision
    measured,      \* history: revisions for which run_performance_test returned
    repo,          \* repository: the main line, oldest commit first
    tagAt,         \* repository: position on the main line of the tag's commit
    prAtMain,      \* repository: does the PR branch point at main's commit?
    timer,         \* run_syft_test: has start_time been taken ("running")?
    log_file,      \* run_syft_test: is the run's log file open?
    now,           \* the last reading of the wall clock, in seconds
    logs,          \* history: the log paths opened for writing, in order
    prepLog,       \* history: the checkout and build commands run
    warmLog        \* history: the binaries run by cache_container_image

vars == <<pc, site, args_pr, nAfter, cloned, version, build_path, head, binary,
          current_run, i, times, results, main_results, pr_results, commits, ci,
          reportExists, report, exitStatus, err, failedAt, runLog, measured,
          repo, tagAt, prAtMain, timer, log_file, now, logs, prepLog, warmLog>>

\* the repository and the clock/log history, which main()'s own steps leave
\* alone
repoVars == <<repo, tagAt, prAtMain>>
clockVars == <<now, logs>>
runVars == <<timer, log_file>>

\* ------------------------------------------------------------ pure helpers
RECURSIVE SeqSum(_)
SeqSum(s) == IF s = <<>> THEN 0 ELSE Head(s) + SeqSum(Tail(s))

\* min(times), max(times): both raise ValueError on an empty list, so they
\* are used on non-empty lists only.
SeqMin(s) == CHOOSE x \in {s[k] : k \in 1..Len(s)} :
                \A j \in 1..Len(s) : x <= s[j]
SeqMax(s) == CHOOSE x \in {s[k] : k \in 1..Len(s)} :
                \A j \in 1..Len(s) : x >= s[j]

\* the mean taken over the configured number of runs instead of len(times)
Mean_over_iterations(s) == [num |-> SeqSum(s), den |-> iterations]

\* statistics.mean(times), kept as the exact fraction sum/len
Mean(s) == [num |-> SeqSum(s), den |-> Len(s)]

NoSummary == [min |-> 0, max |-> 0, avg |-> [num |-> 0, den |-> 0],
              full_hash |-> NoHash]

\* the dict run_performance_test returns (no 'full_hash' key)
Summary(s) == [min |-> SeqMin(s), max |-> SeqMax(s), avg |-> Mean(s),
               full_hash |-> NoHash]

\* f"{x:.2f}": the value in hundredths, rounded to nearest
Fmt2(num, den) == (200 * num + den) \div (2 * den)

\* the header block written by write_text
Header == [kind |-> "header", col1 |-> "", text |-> "", href |-> NoHash,
           min |-> 0, max |-> 0, avg |-> 0]

\* every row written in the placeholder form
Row_never_link(ver, res, commit_desc) ==
    [kind |-> "row", col1 |-> ver, text |-> Placeholder, href |-> NoHash,
     min |-> Fmt2(res.min, 1), max |-> Fmt2(res.max, 1),
     avg |-> Fmt2(res.avg.num, res.avg.den)]

\* the table row append_to_report writes
Row(ver, res, commit_desc) ==
    IF res.full_hash # NoHash
    THEN [kind |-> "row", col1 |-> commit_desc, text |-> ver,
          href |-> res.full_hash,
          min |-> Fmt2(res.min, 1), max |-> Fmt2(res.max, 1),
          avg |-> Fmt2(res.avg.num, res.avg.den)]
    ELSE [kind |-> "row", col1 |-> ver, text |-> Placeholder, href |-> NoHash,
          min |-> Fmt2(res.min, 1), max |-> Fmt2(res.max, 1),
          avg |-> Fmt2(res.avg.num, res.avg.den)]

\* ------------------------------------------------ get_commits_after_tag
\* Text is a sequence of tokens: words, "SP" (a space), "LF" (a newline) and
\* "FF" (a form feed, which git leaves inside a subject line).
Tokens(subject) ==
    CASE subject = "add x" -> <<"add", "SP", "x">>
      [] subject = "fix^Lpage two" -> <<"fix", "FF", "page", "SP", "two">>
      [] subject = "a^Lb" -> <<"a", "FF", "b">>
      [] OTHER -> <<subject>>

\* the string a token sequence spells
Text(toks) ==
    CASE toks = <<>> -> ""
      [] Len(toks) = 1 -> toks[1]
      [] toks = <<"add", "SP", "x">> -> "add x"
      [] OTHER -> "?"

\* a main line with n commits after TagCommit, with the given subjects
Mainline(n, subs) ==
    <<[full |-> RootCommit, subject |-> "root"],
      [full |-> TagCommit, subject |-> "release"]>>
    \o [k \in 1..n |-> [full |-> FullHashes[k], subject |-> subs[k]]]

\* `git rev-list -n 1 <tag>`
TagHash(h, at) == h[at].full

\* --format='%H %s', one line per commit
FormatLines(cs) ==
    LET F[q \in Seq([full : STRING, subject : STRING])] ==
            IF q = <<>> THEN <<>>
            ELSE <<Head(q).full, "SP">> \o Tokens(Head(q).subject)
                 \o <<"LF">> \o F[Tail(q)]
    IN  F[cs]

\* a range that includes the tag's commit
GitLogNewestFirst_with_tag(h, tag_hash) ==
    LET from == CHOOSE k \in 1..Len(h) : h[k].full = tag_hash
        tip == Len(h)
    IN  [j \in 1..(tip - from + 1) |-> h[tip - j + 1]]

\* `git log <tag_hash>..main` without --reverse
GitLogNewestFirst(h, tag_hash) ==
    LET from == CHOOSE k \in 1..Len(h) : h[k].full = tag_hash
        tip == Len(h)
    IN  [j \in 1..(tip - from) |-> h[tip - j + 1]]

Reverse(q) == [j \in 1..Len(q) |-> q[Len(q) - j + 1]]

\* `git log --reverse --format='%H %s' <tag_hash>..main`: the commits
\* reachable from main and not from the tag's commit, oldest first
GitLog(h, tag_hash) == FormatLines(Reverse(GitLogNewestFirst(h, tag_hash)))

IsLineBreak(tok) == tok \in {"LF", "FF"}

\* str.splitlines(): breaks at every line boundary, form feeds included
SplitLines(text) ==
    LET S[t \in Seq(STRING)] ==
            IF t = <<>> THEN <<>>
            ELSE LET ends == {k \in 1..Len(t) : IsLineBreak(t[k])}
                     k == IF ends = {} THEN Len(t) + 1
                          ELSE CHOOSE x \in ends : \A y \in ends : x <= y
                 IN  <<SubSeq(t, 1, k - 1)>> \o S[SubSeq(t, k + 1, Len(t))]
    IN  S[text]

\* the loop at lines 94-99; ok = FALSE when line.split(' ', 1) does not
\* give two parts (ValueError)
ParseCommits(lines) ==
    LET P[ls \in Seq(Seq(STRING))] ==
            IF ls = <<>> THEN [ok |-> TRUE, commits |-> <<>>]
            ELSE LET line == Head(ls)
                     sps == {k \in 1..Len(line) : line[k] = "SP"}
                     sp == CHOOSE x \in sps : \A y \in sps : x <= y
                     full_hash == Text(SubSeq(line, 1, sp - 1))
                     subject == Text(SubSeq(line, sp + 1, Len(line)))
                 IN  IF line = <<>> THEN P[Tail(ls)]
                     ELSE IF sps = {} THEN [ok |-> FALSE, commits |-> <<>>]
                     ELSE IF ~P[Tail(ls)].ok
                          THEN [ok |-> FALSE, commits |-> <<>>]
                          ELSE [ok |-> TRUE,
                                commits |-> <<[short |-> ShortHash(full_hash),
                                               full |-> full_hash,
                                               subject |-> subject]>>
                                            \o P[Tail(ls)].commits]
    IN  P[lines]

\* get_commits_after_tag(tag) in the repository h whose tag is at position at
get_commits_after_tag(h, at) ==
    ParseCommits(SplitLines(GitLog(h, TagHash(h, at))))

\* the list for a main line of n commits after the tag with plain subjects
CommitsAfterTag(n) == get_commits_after_tag(Mainline(n, Subjects), 2).commits

\* the ref handed to `git checkout` at each site
CheckoutRef ==
    CASE site = "release" -> version
      [] site = "main" -> "main"
      [] site = "pr" -> args_pr
      [] OTHER -> commits[ci].full

\* the branch's measurement labelled 'main' as well
VersionLabel_pr_as_main ==
    CASE site = "release" -> version
      [] site = "main" -> "main"
      [] site = "pr" -> "main"
      [] OTHER -> commits[ci].short

\* the label handed to run_performance_test at each site
VersionLabel ==
    CASE site = "release" -> version
      [] site = "main" -> "main"
      [] site = "pr" -> args_pr
      [] OTHER -> commits[ci].short

\* ------------------------------------------------------------------- Init
Init ==
    /\ pc = "get_latest_release"
    /\ site = "release"
    /\ args_pr \in {NoPr, PrBranch}
    /\ nAfter \in 0..MaxCommits
    /\ cloned \in BOOLEAN
    /\ version = NoRev
    /\ build_path = FALSE
    /\ head = NoRev
    /\ binary = NoRev
    /\ current_run = 0
    /\ i = 0
    /\ times = <<>>
    /\ results = NoSummary
    /\ main_results = NoSummary
    /\ pr_results = NoSummary
    /\ commits = <<>>
    /\ ci = 0
    /\ reportExists = FALSE
    /\ report = <<>>
    /\ exitStatus = -1
    /\ err = "none"
    /\ failedAt = "none"
    /\ runLog = <<>>
    /\ measured = <<>>
    /\ repo = Mainline(nAfter, Subjects)
    /\ tagAt = 2
    /\ prAtMain = FALSE
    /\ timer = "off"
    /\ log_file = "closed"
    /\ now = 0
    /\ logs = <<>>
    /\ prepLog = <<>>
    /\ warmLog = <<>>

\* a handler that logs the error and lets main() return normally
Raise_exit0(e) ==
    /\ pc' = "done"
    /\ exitStatus' = 0
    /\ err' = e
    /\ failedAt' = pc

\* an exception propagates to `except Exception` in main(): sys.exit(1)
Raise(e) ==
    /\ pc' = "done"
    /\ exitStatus' = 1
    /\ err' = e
    /\ failedAt' = pc

Running == /\ exitStatus' = exitStatus
           /\ err' = err
           /\ failedAt' = failedAt

\* ---------------------------------------------------------------- actions
\* main():216, get_latest_release():103-107
get_latest_release ==
    /\ pc = "get_latest_release"
    /\ \/ /\ version' = Release
          /\ pc' = IF cloned THEN "git_checkout" ELSE "git_clone"
          /\ Running
       \/ /\ \E e \in {"ConnectionError", "HTTPError"} : Raise(e)
          /\ UNCHANGED version
    /\ UNCHANGED <<repoVars, clockVars, runVars, prepLog, warmLog>>
    /\ UNCHANGED <<site, args_pr, nAfter, cloned, build_path, head, binary,
                   current_run, i, times, results, main_results, pr_results,
                   commits, ci, reportExists, report, runLog, measured>>

LogPrep(cmd, ref, ok) ==
    Append(prepLog, [cmd |-> cmd, ref |-> ref, ok |-> ok])

\* clone_and_build():114-115
git_clone ==
    /\ pc = "git_clone"
    /\ \/ /\ cloned' = TRUE
          /\ pc' = "git_checkout"
          /\ Running
       \/ /\ Raise("CalledProcessError")
          /\ UNCHANGED cloned
    /\ UNCHANGED <<repoVars, clockVars, runVars, prepLog, warmLog>>
    /\ UNCHANGED <<site, args_pr, nAfter, version, build_path, head, binary,
                   current_run, i, times, results, main_results, pr_results,
                   commits, ci, reportExists, report, runLog, measured>>

\* `git checkout <ref>`: clone_and_build():118, main():228, 233, 248
git_checkout ==
    /\ pc = "git_checkout"
    /\ \/ /\ head' = CheckoutRef
          /\ pc' = "make_build"
          /\ Running
          /\ prepLog' = LogPrep("checkout", CheckoutRef, TRUE)
       \/ /\ Raise("CalledProcessError")
          /\ UNCHANGED head
          /\ prepLog' = LogPrep("checkout", CheckoutRef, FALSE)
    /\ UNCHANGED <<repoVars, clockVars, runVars, warmLog>>
    /\ UNCHANGED <<site, args_pr, nAfter, cloned, version, build_path, binary,
                   current_run, i, times, results, main_results, pr_results,
                   commits, ci, reportExists, report, runLog, measured>>

\* the cache is warmed again after every build
AfterBuild_always_cache == "cache_container_image"

\* the statement after a successful build: main():221 after the release's
\* build, run_performance_test (main():230, 235, 251) after the others
AfterBuild == IF site = "release" THEN "cache_container_image"
                                  ELSE "run_performance_test"

\* `make build`: clone_and_build():119, main():229, 234, 250.  Line 250
\* passes cwd=build_path, a local that is assigned only at line 225.
make_build ==
    /\ pc = "make_build"
    /\ IF site = "commit" /\ ~build_path
       THEN /\ Raise("UnboundLocalError")
            /\ UNCHANGED <<binary, prepLog>>
       ELSE \/ /\ binary' \in {head, NoRev}
               /\ pc' = AfterBuild
               /\ Running
               /\ prepLog' = LogPrep("build", head, TRUE)
            \/ /\ Raise("CalledProcessError")
               /\ UNCHANGED binary
               /\ prepLog' = LogPrep("build", head, FALSE)
    /\ UNCHANGED <<repoVars, clockVars, runVars, warmLog>>
    /\ UNCHANGED <<site, args_pr, nAfter, cloned, version, build_path, head,
                   current_run, i, times, results, main_results, pr_results,
                   commits, ci, reportExists, report, runLog, measured>>

\* main():218-225, cache_container_image():67-75
cache_container_image ==
    /\ pc = "cache_container_image"
    /\ IF binary = NoRev
       THEN /\ Raise("FileNotFoundError")
            /\ UNCHANGED <<site, build_path>>
       ELSE \/ /\ IF args_pr # NoPr
                  THEN /\ build_path' = TRUE
                       /\ site' = "main"
                       /\ pc' = "git_checkout"
                  ELSE /\ pc' = "run_performance_test"
                       /\ UNCHANGED <<site, build_path>>
               /\ Running
            \/ /\ Raise("CalledProcessError")
               /\ UNCHANGED <<site, build_path>>
    /\ warmLog' = Append(warmLog, binary)
    /\ UNCHANGED <<repoVars, clockVars, runVars, prepLog>>
    /\ UNCHANGED <<args_pr, nAfter, cloned, version, head, binary,
                   current_run, i, times, results, main_results, pr_results,
                   commits, ci, reportExists, report, runLog, measured>>

\* run_performance_test():160-161
run_performance_test ==
    /\ pc = "run_performance_test"
    /\ times' = <<>>
    /\ current_run' = 0
    /\ i' = 0
    /\ runLog' = <<>>
    /\ pc' = "for_iteration"
    /\ Running
    /\ UNCHANGED <<repoVars, clockVars, runVars, prepLog, warmLog>>
    /\ UNCHANGED <<site, args_pr, nAfter, cloned, version, build_path, head,
                   binary, results, main_results, pr_results, commits, ci,
                   reportExists, report, measured>>

\* a loop that runs once more than configured
MoreIterations_off_by_one == i <= iterations

\* `for i in range(CONFIG['iterations'])`: is there another value?
MoreIterations == i < iterations

\* run_performance_test():163-164
for_iteration ==
    /\ pc = "for_iteration"
    /\ IF MoreIterations
       THEN /\ current_run' = i + 1
            /\ i' = i + 1
            /\ pc' = "binary_exists"
       ELSE /\ pc' = "aggregate"
            /\ UNCHANGED <<current_run, i>>
    /\ Running
    /\ UNCHANGED <<repoVars, clockVars, runVars, prepLog, warmLog>>
    /\ UNCHANGED <<site, args_pr, nAfter, cloned, version, build_path, head,
                   binary, times, results, main_results, pr_results, commits,
                   ci, reportExists, report, runLog, measured>>

LogRun(out, d) ==
    Append(runLog, [rev |-> VersionLabel, run |-> current_run,
                    out |-> out, d |-> d])

\* a loop without the try/except: the failed run's exception propagates
CaughtCalledProcessError_propagates ==
    /\ runLog' = LogRun("CalledProcessError", 0)
    /\ Raise("CalledProcessError")
    /\ timer' = "off"
    /\ log_file' = "closed"
    /\ UNCHANGED times

\* the handler at run_performance_test():168-170
CaughtCalledProcessError ==
    /\ runLog' = LogRun("CalledProcessError", 0)
    /\ pc' = "for_iteration"
    /\ Running
    /\ timer' = "off"
    /\ log_file' = "closed"
    /\ UNCHANGED times

\* run_syft_test():123-126; FileNotFoundError is not a CalledProcessError
binary_exists ==
    /\ pc = "binary_exists"
    /\ IF binary = NoRev
       THEN /\ Raise("FileNotFoundError")
            /\ runLog' = LogRun("FileNotFoundError", 0)
       ELSE /\ pc' = "rev_parse"
            /\ Running
            /\ UNCHANGED runLog
    /\ UNCHANGED <<repoVars, clockVars, runVars, prepLog, warmLog>>
    /\ UNCHANGED <<site, args_pr, nAfter, cloned, version, build_path, head,
                   binary, current_run, i, times, results, main_results,
                   pr_results, commits, ci, reportExists, report, measured>>

\* run_syft_test():129-136: `git rev-parse --short HEAD`, then start_time
rev_parse ==
    /\ pc = "rev_parse"
    /\ \/ /\ pc' = "get_log_path"
          /\ timer' = "running"
          /\ Running
          /\ UNCHANGED <<runLog, times, log_file>>
       \/ CaughtCalledProcessError
    /\ UNCHANGED <<repoVars, clockVars, prepLog, warmLog>>
    /\ UNCHANGED <<site, args_pr, nAfter, cloned, version, build_path, head,
                   binary, current_run, i, results, main_results,
                   pr_results, commits, ci, reportExists, report, measured>>

\* run_syft_test():139-140, get_log_path():39-44: the log directory is
\* made, the path is built and the file is opened for writing
get_log_path ==
    /\ pc = "get_log_path"
    /\ log_file' = "open"
    /\ pc' = "invoke"
    /\ Running
    /\ UNCHANGED <<site, args_pr, nAfter, cloned, version, build_path, head,
                   binary, current_run, i, times, results, main_results,
                   pr_results, commits, ci, reportExists, report, runLog,
                   measured, timer>>
    /\ UNCHANGED <<repoVars, clockVars, prepLog, warmLog>>

\* run_syft_test():141-152 (the run, end_time, the duration returned),
\* run_performance_test():166-167
invoke ==
    /\ pc = "invoke"
    /\ \/ \E d \in Durations :
             /\ times' = Append(times, d)
             /\ runLog' = LogRun("ok", d)
             /\ pc' = "for_iteration"
             /\ timer' = "off"
             /\ log_file' = "closed"
             /\ Running
       \/ CaughtCalledProcessError
    /\ UNCHANGED <<repoVars, clockVars, prepLog, warmLog>>
    /\ UNCHANGED <<site, args_pr, nAfter, cloned, version, build_path, head,
                   binary, current_run, i, results, main_results,
                   pr_results, commits, ci, reportExists, report, measured>>

\* the branch is measured with whatever main's build left behind
AfterMainMeasured_no_rebuild == "run_performance_test"

\* the statement after main's measurement: the checkout at main():233
AfterMainMeasured == "git_checkout"

\* results['full_hash'] = full_hash, main():252
WithFullHash(res, full_hash) == [res EXCEPT !.full_hash = full_hash]

\* run_performance_test():172-176 and the assignment of its result at
\* main():230, 235, 240, 251-252
aggregate ==
    /\ pc = "aggregate"
    /\ IF times = <<>>
       THEN /\ Raise("ValueError")
            /\ UNCHANGED <<site, results, main_results, pr_results, measured>>
       ELSE /\ measured' = Append(measured, VersionLabel)
            /\ Running
            /\ CASE site = "release" ->
                      /\ results' = Summary(times)
                      /\ pc' = "append_to_report"
                      /\ UNCHANGED <<site, main_results, pr_results>>
                 [] site = "main" ->
                      /\ main_results' = Summary(times)
                      /\ site' = "pr"
                      /\ pc' = AfterMainMeasured
                      /\ UNCHANGED <<results, pr_results>>
                 [] site = "pr" ->
                      /\ pr_results' = Summary(times)
                      /\ site' = "main"
                      /\ pc' = "append_to_report"
                      /\ UNCHANGED <<results, main_results>>
                 [] OTHER ->
                      /\ results' = WithFullHash(Summary(times),
                                                 commits[ci].full)
                      /\ pc' = "append_to_report"
                      /\ UNCHANGED <<site, main_results, pr_results>>
    /\ UNCHANGED <<args_pr, nAfter, cloned, version, build_path, head, binary,
                   current_run, i, times, commits, ci, reportExists, report,
                   runLog>>
    /\ UNCHANGED <<repoVars, clockVars, runVars, prepLog, warmLog>>

\* is_first=True passed at every call
IsFirst_always == TRUE

\* the is_first argument at main():237, 238, 241, 253
IsFirst == site \in {"release", "main"}

\* append_to_report():178-204, called at main():237, 238, 241, 253
append_to_report ==
    /\ pc = "append_to_report"
    /\ LET res == CASE site = "main" -> main_results
                    [] site = "pr" -> pr_results
                    [] OTHER -> results
           commit_desc == IF site = "commit" THEN commits[ci].subject
                                             ELSE "None"
           written == IF IsFirst THEN <<Header>> ELSE report
       IN  /\ report' = Append(written, Row(VersionLabel, res, commit_desc))
           /\ reportExists' = TRUE
    /\ CASE site = "release" -> pc' = "rev_list" /\ UNCHANGED site
         [] site = "main" -> pc' = "append_to_report" /\ site' = "pr"
         [] site = "pr" -> pc' = "finish" /\ UNCHANGED site
         [] OTHER -> pc' = "for_commit" /\ UNCHANGED site
    /\ Running
    /\ UNCHANGED <<repoVars, clockVars, runVars, prepLog, warmLog>>
    /\ UNCHANGED <<args_pr, nAfter, cloned, version, build_path, head, binary,
                   current_run, i, times, results, main_results, pr_results,
                   commits, ci, runLog, measured>>

\* get_commits_after_tag():82-85
rev_list ==
    /\ pc = "rev_list"
    /\ \/ pc' = "git_log" /\ Running
       \/ Raise("CalledProcessError")
    /\ UNCHANGED <<repoVars, clockVars, runVars, prepLog, warmLog>>
    /\ UNCHANGED <<site, args_pr, nAfter, cloned, version, build_path, head,
                   binary, current_run, i, times, results, main_results,
                   pr_results, commits, ci, reportExists, report, runLog,
                   measured>>

\* get_commits_after_tag():88-101, main():243-244
git_log ==
    /\ pc = "git_log"
    /\ \/ LET parsed == get_commits_after_tag(repo, tagAt)
          IN  IF parsed.ok
              THEN /\ commits' = parsed.commits
                   /\ pc' = "for_commit"
                   /\ Running
              ELSE /\ Raise("ValueError")
                   /\ UNCHANGED commits
       \/ /\ Raise("CalledProcessError")
          /\ UNCHANGED commits
    /\ UNCHANGED <<repoVars, clockVars, runVars, prepLog, warmLog>>
    /\ UNCHANGED <<site, args_pr, nAfter, cloned, version, build_path, head,
                   binary, current_run, i, times, results, main_results,
                   pr_results, ci, reportExists, report, runLog, measured>>

\* main():246-247
for_commit ==
    /\ pc = "for_commit"
    /\ IF ci < Len(commits)
       THEN /\ ci' = ci + 1
            /\ site' = "commit"
            /\ pc' = "git_checkout"
       ELSE /\ pc' = "finish"
            /\ UNCHANGED <<ci, site>>
    /\ Running
    /\ UNCHANGED <<repoVars, clockVars, runVars, prepLog, warmLog>>
    /\ UNCHANGED <<args_pr, nAfter, cloned, version, build_path, head, binary,
                   current_run, i, times, results, main_results, pr_results,
                   commits, reportExists, report, runLog, measured>>

\* main():255 and the normal return of main()
finish ==
    /\ pc = "finish"
    /\ pc' = "done"
    /\ exitStatus' = 0
    /\ UNCHANGED <<site, args_pr, nAfter, cloned, version, build_path, head,
                   binary, current_run, i, times, results, main_results,
                   pr_results, commits, ci, reportExists, report, err,
                   failedAt, runLog, measured>>
    /\ UNCHANGED <<repoVars, clockVars, runVars, prepLog, warmLog>>

Next ==
    \/ get_latest_release
    \/ git_clone
    \/ git_checkout
    \/ make_build
    \/ cache_container_image
    \/ run_performance_test
    \/ for_iteration
    \/ binary_exists
    \/ rev_parse
    \/ get_log_path
    \/ invoke
    \/ aggregate
    \/ append_to_report
    \/ rev_list
    \/ git_log
    \/ for_commit
    \/ finish

Spec == Init /\ [][Next]_vars

\* every subprocess and the HTTP lookup return, so the next statement runs
FairSpec == Spec /\ WF_vars(Next)

TypeOK ==
    /\ pc \in {"get_latest_release", "git_clone", "git_checkout", "make_build",
               "cache_container_image", "run_performance_test",
               "for_iteration", "binary_exists", "rev_parse", "get_log_path",
               "invoke",
               "aggregate", "append_to_report", "rev_list", "git_log",
               "for_commit", "finish", "done"}
    /\ site \in {"release", "main", "pr", "commit"}
    /\ exitStatus \in {-1, 0, 1}
    /\ current_run \in 0..iterations
    /\ i \in 0..iterations
    /\ Len(times) <= iterations
    /\ ci \in 0..nAfter

\* ------------------------------------------------- vocabulary of the claims
Rows == SelectSeq(report, LAMBDA b : b.kind = "row")

\* the revision a row is about: the plain label, or the text of the link
RevOf(b) == IF b.text = Placeholder THEN b.col1 ELSE b.text

RowRevs == [k \in 1..Len(Rows) |-> RevOf(Rows[k])]

\* no lookup, clone, checkout, build, cache-warming run or enumeration
\* failed, no binary was missing, and no revision was left without a
\* successful timed run
AllSucceeded ==
    err \notin {"ConnectionError", "HTTPError", "CalledProcessError",
                "FileNotFoundError", "ValueError"}

EnumeratedRevs == [k \in 1..nAfter |-> ShortHash(FullHashes[k])]

OkRuns == {k \in 1..Len(runLog) : runLog[k].out = "ok"}

\* C1: history mode, n >= 1 commits after the tag, every external step
\* succeeding: the campaign ends with exit status 0 and the report holds the
\* release row followed by one row per enumerated commit, oldest first.
C1_HistoryRows ==
    (pc = "done" /\ args_pr = NoPr /\ nAfter >= 1 /\ AllSucceeded)
        => /\ exitStatus = 0
           /\ RowRevs = <<Release>> \o EnumeratedRevs

\* C2: comparison mode, every external step succeeding: the campaign ends,
\* with exit status 0, and the report is the header, the row of main and the
\* row of the supplied branch, in that order, with no row for the release.
C2_Final ==
    (pc = "done" /\ args_pr # NoPr /\ AllSucceeded)
        => /\ exitStatus = 0
           /\ reportExists
           /\ report = <<Header, Row("main", main_results, "None"),
                         Row(args_pr, pr_results, "None")>>
           /\ RowRevs = <<"main", args_pr>>
           /\ \A k \in 1..Len(RowRevs) : RowRevs[k] # Release

C2_ComparisonRows == [](C2_Final) /\ <>(pc = "done")

C2_Witness ==
    /\ pc = "done"
    /\ args_pr = PrBranch
    /\ exitStatus = 0
    /\ RowRevs = <<"main", PrBranch>>

\* C3: when all `iterations` timed runs of a revision exit non-zero, the
\* measurement fails with the aggregator's own NoSuccessfulRuns condition and
\* no summary is produced for the revision.
C3_NoSuccessfulRuns ==
    (/\ pc = "done"
     /\ Len(runLog) = iterations
     /\ \A k \in 1..Len(runLog) : /\ runLog[k].rev = VersionLabel
                                  /\ runLog[k].out = "CalledProcessError")
        => /\ err = "NoSuccessfulRuns"
           /\ \A k \in 1..Len(measured) : measured[k] # VersionLabel

\* C4: a timed run that exits non-zero never reaches main()'s handler; the
\* aggregation step of a revision is reached with exactly `iterations` runs
\* logged, numbered 1..iterations in increasing order; and a measurement that
\* has got past the binary check always reaches its aggregation step.
C4_Attempts ==
    /\ failedAt \notin {"for_iteration", "rev_parse", "invoke"}
    /\ pc = "aggregate" =>
          /\ Len(runLog) = iterations
          /\ \A k \in 1..Len(runLog) : /\ runLog[k].run = k
                                       /\ runLog[k].rev = VersionLabel

C4_FailedRunSkipped ==
    [](C4_Attempts) /\ ((pc = "rev_parse") ~> (pc = "aggregate"))

C4_Witness ==
    /\ pc = "aggregate"
    /\ runLog[1].out = "CalledProcessError"
    /\ runLog[3].out = "ok"
    /\ runLog[iterations].out = "CalledProcessError"

\* C5: a timed run that finds no binary at the expected path is skipped like
\* any failed run: it does not end the campaign.
C5_BinaryMissingSkipped ==
    \A k \in 1..Len(runLog) :
        runLog[k].out = "FileNotFoundError" => failedAt # "binary_exists"

\* the durations run_syft_test returned in the logged runs of one revision
RECURSIVE OkSum(_)
OkSum(log) ==
    IF log = <<>> THEN 0
    ELSE (IF Head(log).out = "ok" THEN Head(log).d ELSE 0) + OkSum(Tail(log))

\* s is the minimum, maximum and mean of exactly the successful runs of log
StatsOver(s, log) ==
    LET ok == {k \in 1..Len(log) : log[k].out = "ok"}
    IN  /\ ok # {}
        /\ \E k \in ok : log[k].d = s.min
        /\ \A k \in ok : s.min <= log[k].d
        /\ \E k \in ok : log[k].d = s.max
        /\ \A k \in ok : log[k].d <= s.max
        /\ s.avg.den = Cardinality(ok)
        /\ s.avg.num = OkSum(log)
        /\ s.min * s.avg.den <= s.avg.num
        /\ s.avg.num <= s.max * s.avg.den

\* C6: whenever run_performance_test returns a summary, its min, max and avg
\* are the minimum, maximum and arithmetic mean of exactly the durations of
\* the successful runs of that revision, so min <= avg <= max.
C6_SummaryOverSuccessful ==
    [][(pc = "aggregate" /\ pc' # "done") =>
          StatsOver(CASE site = "main" -> main_results'
                      [] site = "pr" -> pr_results'
                      [] OTHER -> results',
                    runLog)]_vars

C6_Witness ==
    /\ pc = "append_to_report"
    /\ site = "release"
    /\ Len(runLog) = iterations
    /\ Cardinality(OkRuns) = 3
    /\ runLog[2].out = "CalledProcessError"
    /\ results.min = 1
    /\ results.max = 2
    /\ results.avg = [num |-> 4, den |-> 3]

\* C7: when the campaign ends through main()'s handler, the report holds the
\* header and one row for every revision measured before the error, and no
\* other row.
C7_PartialReport ==
    (pc = "done" /\ exitStatus = 1)
        => /\ RowRevs = measured
           /\ measured # <<>> => (reportExists /\ Head(report) = Header)

IsPrefix(a, b) == Len(a) <= Len(b) /\ a = SubSeq(b, 1, Len(a))

C8_Shape ==
    /\ ~reportExists => report = <<>>
    /\ reportExists =>
          /\ Len(report) >= 2
          /\ Head(report) = Header
          /\ \A k \in 2..Len(report) : report[k].kind = "row"
    /\ IsPrefix(RowRevs, measured)

\* C8: the report, once it exists, is one header block followed by data rows;
\* a step that touches an existing report only adds one row at its end; the
\* rows are in the order in which the revisions were measured.
C8_AppendOnly ==
    /\ [](C8_Shape)
    /\ [][reportExists =>
             \/ report' = report
             \/ /\ Len(report') = Len(report) + 1
                /\ SubSeq(report', 1, Len(report)) = report
                /\ report'[Len(report')].kind = "row"]_vars
    /\ [][reportExists => reportExists']_vars

C8_Witness ==
    /\ reportExists
    /\ Len(report) = 3
    /\ report[2].col1 = "main"
    /\ report[3].col1 = PrBranch

\* C9: at the end of the campaign the exit status is 0 exactly when no error
\* reached main()'s handler, which is exactly when every external step
\* succeeded and every measured revision had a successful run.
C9_ExitStatus ==
    pc = "done" =>
        /\ exitStatus \in {0, 1}
        /\ exitStatus = 0 <=> err = "none"
        /\ err = "none" <=> AllSucceeded

\* a checkout or a build (or the clone before the first checkout) failed
PrepareFailed ==
    /\ err = "CalledProcessError"
    /\ failedAt \in {"git_clone", "git_checkout", "make_build"}

\* C10: after a failed checkout or build the campaign is over with exit
\* status 1, and the revision that could not be prepared has no timed run,
\* no summary and no row.
C10_PrepareFailureAborts ==
    PrepareFailed =>
        /\ pc = "done"
        /\ exitStatus = 1
        /\ \A k \in 1..Len(runLog) : runLog[k].rev # VersionLabel
        /\ \A k \in 1..Len(measured) : measured[k] # VersionLabel
        /\ \A k \in 1..Len(RowRevs) : RowRevs[k] # VersionLabel

C10_Witness ==
    /\ PrepareFailed
    /\ failedAt = "make_build"
    /\ site = "pr"
    /\ measured = <<"main">>

\* the last checkout and the last build that were run are a checkout of ref
\* and a build of ref, in that order, and both succeeded
Prepared(ref) ==
    /\ Len(prepLog) >= 2
    /\ prepLog[Len(prepLog) - 1] = [cmd |-> "checkout", ref |-> ref, ok |-> TRUE]
    /\ prepLog[Len(prepLog)] = [cmd |-> "build", ref |-> ref, ok |-> TRUE]

\* the binary is about to be run: by a timed run, or by the cache-warming run
BinaryInvoked ==
    \/ pc = "invoke"
    \/ pc = "cache_container_image" /\ binary # NoRev

\* C11: whenever the binary is run, timed or to warm the cache, the last
\* checkout and the last build were a successful checkout and a successful
\* build of the revision being prepared at that point of main(), with nothing
\* in between, and the binary on disk is the build of that revision, never
\* the one of an earlier revision.
C11_BinaryOfCurrentRevision ==
    BinaryInvoked =>
        /\ Prepared(CheckoutRef)
        /\ head = CheckoutRef
        /\ binary = CheckoutRef

C11_Witness ==
    /\ pc = "invoke"
    /\ site = "pr"
    /\ measured = <<"main">>
    /\ binary = PrBranch
    /\ Len(prepLog) = 6

\* run_performance_test has been entered for some revision
MeasuringBegun ==
    \/ pc \in {"run_performance_test", "for_iteration", "binary_exists",
               "rev_parse", "get_log_path", "invoke", "aggregate"}
    \/ runLog # <<>>
    \/ measured # <<>>

\* C12: in both modes the cache-warming invocation is made at most once in a
\* campaign and exactly once in a campaign that gets as far as measuring or
\* that ends with status 0; it precedes the first timed run and is not made
\* again before later revisions; when it fails the campaign is over with no
\* timed run performed.
C12_OneCacheWarming ==
    /\ Len(warmLog) <= 1
    /\ MeasuringBegun =>
          /\ Len(warmLog) = 1
          /\ failedAt # "cache_container_image"
    /\ failedAt = "cache_container_image" =>
          /\ pc = "done"
          /\ exitStatus = 1
          /\ Len(warmLog) = 1
          /\ runLog = <<>>
          /\ measured = <<>>
    /\ (pc = "done" /\ exitStatus = 0) => Len(warmLog) = 1

C12_Witness ==
    /\ pc = "invoke"
    /\ site = "pr"
    /\ measured = <<"main">>
    /\ Len(runLog) = 2
    /\ Len(warmLog) = 1

\* C13: the measured interval of run_syft_test does not contain the log-file
\* setup: whenever start_time has been taken and end_time has not, the log
\* path has been generated and the log file is open.
C13_IntervalExcludesLogSetup ==
    timer = "running" => log_file = "open"

\* the release lookup raised (requests.get failed, or raise_for_status did)
LookupFailed == failedAt = "get_latest_release"

C14_Aborted ==
    LookupFailed =>
        /\ pc = "done"
        /\ exitStatus = 1
        /\ err \in {"ConnectionError", "HTTPError"}
        /\ version = NoRev
        /\ prepLog = <<>>
        /\ head = NoRev
        /\ binary = NoRev
        /\ warmLog = <<>>
        /\ runLog = <<>>
        /\ measured = <<>>
        /\ ~reportExists
        /\ report = <<>>

\* C14: when the release lookup fails, in either mode, the campaign is over
\* with exit status 1 and no clone, checkout, build, cache-warming run or
\* timed run has been made and no report file exists; the failing step
\* itself leaves the working copy as it found it.
C14_LookupFailureAborts ==
    /\ [](C14_Aborted)
    /\ [][(pc = "get_latest_release" /\ pc' = "done") => cloned' = cloned]_vars
    /\ [][LookupFailed => UNCHANGED vars]_vars

C14_Witness ==
    /\ LookupFailed
    /\ args_pr = PrBranch
    /\ err = "HTTPError"
    /\ ~cloned

\* ------------------------------------------------------------ log paths
\* the commit a ref of the working copy points at
CommitOf(ref) ==
    CASE ref = Release -> TagHash(repo, tagAt)
      [] ref = "main" -> repo[Len(repo)].full
      [] ref = PrBranch -> IF prAtMain THEN repo[Len(repo)].full ELSE PrCommit
      [] OTHER -> ref

\* `git rev-parse --short HEAD`, run_syft_test():129-132
CommitId == ShortHash(CommitOf(head))

\* get_log_path():41-44: syft_{commit_id}_run{run_number}_{timestamp}.log,
\* the timestamp being the clock reading cut to the second
LogPath(commit_id, run_number, timestamp) ==
    [commit |-> commit_id, run |-> run_number, ts |-> timestamp]

\* The timed runs of a comparison campaign, main first and the branch
\* second, after the release has been built and the cache warmed; no step
\* fails.  The working copy is on main and main's build is on disk.
LogInit ==
    /\ pc = "for_iteration"
    /\ site = "main"
    /\ args_pr = PrBranch
    /\ nAfter \in 0..MaxCommits
    /\ cloned = TRUE
    /\ version = Release
    /\ build_path = TRUE
    /\ head = "main"
    /\ binary = "main"
    /\ current_run = 0
    /\ i = 0
    /\ times = <<>>
    /\ results = NoSummary
    /\ main_results = NoSummary
    /\ pr_results = NoSummary
    /\ commits = <<>>
    /\ ci = 0
    /\ reportExists = FALSE
    /\ report = <<>>
    /\ exitStatus = -1
    /\ err = "none"
    /\ failedAt = "none"
    /\ runLog = <<>>
    /\ measured = <<>>
    /\ repo = Mainline(nAfter, Subjects)
    /\ tagAt = 2
    /\ prAtMain \in BOOLEAN
    /\ timer = "off"
    /\ log_file = "closed"
    /\ now \in 0..MaxClock
    /\ logs = <<>>
    /\ prepLog = <<>>
    /\ warmLog = <<Release>>

\* run_performance_test():163-164 for both revisions, and between them the
\* checkout and build of the branch (main():233-235)
next_timed_run ==
    /\ pc = "for_iteration"
    /\ IF MoreIterations
       THEN /\ current_run' = i + 1
            /\ i' = i + 1
            /\ pc' = "get_log_path"
            /\ UNCHANGED <<site, head, binary>>
       ELSE IF site = "main"
            THEN /\ site' = "pr"
                 /\ head' = args_pr
                 /\ binary' = args_pr
                 /\ current_run' = 0
                 /\ i' = 0
                 /\ pc' = "for_iteration"
            ELSE /\ pc' = "done"
                 /\ UNCHANGED <<site, head, binary, current_run, i>>
    /\ UNCHANGED <<args_pr, nAfter, cloned, version, build_path, times,
                   results, main_results, pr_results, commits, ci,
                   reportExists, report, exitStatus, err, failedAt, runLog,
                   measured, repoVars, clockVars, runVars, prepLog, warmLog>>

\* run_syft_test():129-147 with get_log_path():39-44: the commit id of HEAD,
\* a reading of the clock, which has not gone back since the last reading,
\* the path built from them and the file opened with mode 'w'
open_log ==
    /\ pc = "get_log_path"
    /\ \E t \in now..MaxClock :
          /\ now' = t
          /\ logs' = Append(logs, LogPath(CommitId, current_run, t))
    /\ pc' = "for_iteration"
    /\ UNCHANGED <<site, args_pr, nAfter, cloned, version, build_path, head,
                   binary, current_run, i, times, results, main_results,
                   pr_results, commits, ci, reportExists, report, exitStatus,
                   err, failedAt, runLog, measured, repoVars, runVars,
                   prepLog, warmLog>>

LogNext == next_timed_run \/ open_log

LogSpec == LogInit /\ [][LogNext]_vars

\* C15: no two timed runs of a campaign open the same log path for writing,
\* also when main and the PR branch are the same commit and when runs fall
\* into the same clock second.
C15_DistinctLogPaths ==
    \A a, b \in 1..Len(logs) : a # b => logs[a] # logs[b]

\* ------------------------------------------------- histories of the main line
\* subject lines: plain, with a space, with a form feed
SubjectSet == {"s1", "add x", "fix^Lpage two", "a^Lb"}

\* History mode after the release has been measured and its row written:
\* main() is about to call get_commits_after_tag (line 243).  The main line
\* has up to MaxCommits commits after TagCommit, with any subjects, and the
\* release tag is on RootCommit or on TagCommit.
HistInit ==
    /\ pc = "rev_list"
    /\ site = "release"
    /\ args_pr = NoPr
    /\ nAfter \in 0..MaxCommits
    /\ cloned = TRUE
    /\ version = Release
    /\ build_path = FALSE
    /\ head = Release
    /\ binary = Release
    /\ current_run = iterations
    /\ i = iterations
    /\ times = [k \in 1..iterations |-> 1]
    /\ results = Summary(times)
    /\ main_results = NoSummary
    /\ pr_results = NoSummary
    /\ commits = <<>>
    /\ ci = 0
    /\ reportExists = TRUE
    /\ report = <<Header, Row(Release, results, "None")>>
    /\ exitStatus = -1
    /\ err = "none"
    /\ failedAt = "none"
    /\ runLog = [k \in 1..iterations |->
                    [rev |-> Release, run |-> k, out |-> "ok", d |-> 1]]
    /\ measured = <<Release>>
    /\ \E subs \in [1..nAfter -> SubjectSet] : repo = Mainline(nAfter, subs)
    /\ tagAt \in {1, 2}
    /\ prAtMain = FALSE
    /\ timer = "off"
    /\ log_file = "closed"
    /\ now = 0
    /\ logs = <<>>
    /\ prepLog = <<[cmd |-> "checkout", ref |-> Release, ok |-> TRUE],
                   [cmd |-> "build", ref |-> Release, ok |-> TRUE]>>
    /\ warmLog = <<Release>>

HistNext == rev_list \/ git_log

HistSpec == HistInit /\ [][HistNext]_vars

\* the full hashes of the commits strictly after the tag's commit up to the
\* tip of main, oldest first
AfterTag == [k \in 1..(Len(repo) - tagAt) |-> repo[tagAt + k].full]

\* C16: for every history whose release tag is on a commit of the main
\* line, get_commits_after_tag returns (when git itself does not fail) the
\* commits strictly after the tag's commit up to the tip of main, each
\* exactly once, oldest first, without the tag's commit; the empty list when
\* there is none.
C16_CommitsAfterTag ==
    /\ failedAt = "git_log" => err = "CalledProcessError"
    /\ pc = "for_commit" => [k \in 1..Len(commits) |-> commits[k].full] = AfterTag

\* ------------------------------------------------------- rows of the report
\* the summary of iterations timed runs of one time unit each
UnitSummary == Summary([k \in 1..iterations |-> 1])

\* run_performance_test is about to return at one of its calls in main():
\* for the release (line 240), for the branch after main (line 235), or for
\* the ci-th commit after the tag (line 251); all `iterations` runs of the
\* revision succeeded.  The report holds the rows written before that call.
RowInit ==
    /\ pc = "aggregate"
    /\ site \in {"release", "pr", "commit"}
    /\ args_pr = IF site = "pr" THEN PrBranch ELSE NoPr
    /\ nAfter \in 0..MaxCommits
    /\ site = "commit" => nAfter >= 1
    /\ cloned = TRUE
    /\ version = Release
    /\ build_path = (site = "pr")
    /\ commits = IF site = "commit" THEN CommitsAfterTag(nAfter) ELSE <<>>
    /\ ci \in IF site = "commit" THEN 1..nAfter ELSE {0}
    /\ head = CheckoutRef
    /\ binary = CheckoutRef
    /\ current_run = iterations
    /\ i = iterations
    /\ times \in [1..iterations -> Durations]
    /\ results = IF site = "commit" THEN UnitSummary ELSE NoSummary
    /\ main_results = IF site = "pr" THEN UnitSummary ELSE NoSummary
    /\ pr_results = NoSummary
    /\ reportExists = (site = "commit")
    /\ report = IF site = "commit"
                THEN <<Header, Row(Release, UnitSummary, "None")>>
                     \o [k \in 1..(ci - 1) |->
                           Row(commits[k].short,
                               WithFullHash(UnitSummary, commits[k].full),
                               commits[k].subject)]
                ELSE <<>>
    /\ exitStatus = -1
    /\ err = "none"
    /\ failedAt = "none"
    /\ runLog = [k \in 1..iterations |->
                    [rev |-> VersionLabel, run |-> k, out |-> "ok",
                     d |-> times[k]]]
    /\ measured = CASE site = "pr" -> <<"main">>
                    [] site = "commit" ->
                          <<Release>> \o [k \in 1..(ci - 1) |-> commits[k].short]
                    [] OTHER -> <<>>
    /\ repo = Mainline(nAfter, Subjects)
    /\ tagAt = 2
    /\ prAtMain = FALSE
    /\ timer = "off"
    /\ log_file = "closed"
    /\ now = 0
    /\ logs = <<>>
    /\ prepLog = <<[cmd |-> "checkout", ref |-> CheckoutRef, ok |-> TRUE],
                   [cmd |-> "build", ref |-> CheckoutRef, ok |-> TRUE]>>
    /\ warmLog = <<Release>>

RowNext == aggregate \/ append_to_report

RowSpec == RowInit /\ [][RowNext]_vars

\* C17: the row append_to_report writes is the link form, with the full
\* identifier in the link, the label as its text and the commit description
\* in the first column, exactly when the summary carries a full identifier,
\* and otherwise the label with the placeholder in the commit column; the
\* rows of the release, of main and of the branch are of the placeholder
\* form and the row of a commit is of the link form.
C17_RowForm ==
    [][pc = "append_to_report" =>
          LET res == CASE site = "main" -> main_results
                       [] site = "pr" -> pr_results
                       [] OTHER -> results
              row == report'[Len(report')]
          IN  /\ (res.full_hash # NoHash) <=> (row.href # NoHash)
              /\ row.href # NoHash =>
                    /\ row.href = res.full_hash
                    /\ row.text = VersionLabel
                    /\ row.col1 = commits[ci].subject
              /\ row.href = NoHash =>
                    /\ row.text = Placeholder
                    /\ row.col1 = VersionLabel
              /\ site \in {"release", "main", "pr"} => row.href = NoHash
              /\ site = "commit" => row.href = commits[ci].full]_vars

C17_Witness ==
    /\ pc = "for_commit"
    /\ Len(report) = 4
    /\ report[2].col1 = Release
    /\ report[2].text = Placeholder
    /\ report[4].href = "abcdef2000"
    /\ report[4].text = "abcdef2"
    /\ report[4].col1 = "s2"

\* the binaries the cache-warming runs found on disk and ran
Warmed == {warmLog[k] : k \in 1..Len(warmLog)} \ {NoRev}

\* C18 as stated: the binary of the cache-warming run is the build of the
\* revision measured first in the mode: the release's build in history mode,
\* main's build in comparison mode.
C18_BaselineIsFirstMeasured ==
    \A b \in Warmed : b = IF args_pr = NoPr THEN Release ELSE "main"

\* C18: in both modes the binary of the cache-warming run is the build of
\* the latest release, made by clone_and_build before anything else is
\* checked out or built; in history mode the release is the revision
\* measured first, in comparison mode the release is not measured at all and
\* main, the first revision measured, is checked out and built after the
\* cache-warming run.
C18_CacheWarmingBinary ==
    /\ \A b \in Warmed : b = Release
    /\ pc = "cache_container_image" =>
          \A k \in 1..Len(prepLog) : prepLog[k].ref = Release
    /\ (args_pr = NoPr /\ measured # <<>>) => measured[1] = Release
    /\ args_pr # NoPr =>
          /\ \A k \in 1..Len(measured) : measured[k] # Release
          /\ measured # <<>> => measured[1] = "main"

C18_Witness ==
    /\ args_pr = PrBranch
    /\ pc = "invoke"
    /\ site = "main"
    /\ binary = "main"
    /\ warmLog = <<Release>>

\* history mode, no commit after the release tag, and the release has been
\* measured: the lookup, clone, checkout, build and cache-warming run
\* succeeded and so did at least one timed run of the release
C19_Case ==
    /\ args_pr = NoPr
    /\ nAfter = 0
    /\ measured = <<Release>>

\* the two git commands of get_commits_after_tag did not fail
EnumerationOk == failedAt \notin {"rev_list", "git_log"}

C19_Inv ==
    C19_Case =>
        /\ prepLog = <<[cmd |-> "checkout", ref |-> Release, ok |-> TRUE],
                       [cmd |-> "build", ref |-> Release, ok |-> TRUE]>>
        /\ head = Release
        /\ pc \in {"for_commit", "finish"} => commits = <<>>
        /\ (pc = "done" /\ EnumerationOk) =>
              /\ exitStatus = 0
              /\ err = "none"
              /\ report = <<Header, Row(Release, results, "None")>>
              /\ RowRevs = <<Release>>

\* C19: history mode with no commit after the release tag: once the release
\* has been measured, the campaign ends; it ends with exit status 0 when the
\* enumeration returns its empty list, the report then being the header and
\* the release's row and nothing else; and no checkout or build is made
\* after the release's.
C19_NoCommits ==
    /\ [](C19_Inv)
    /\ (C19_Case ~> (pc = "done"))

C19_Witness ==
    /\ C19_Case
    /\ pc = "done"
    /\ exitStatus = 0
    /\ Len(report) = 2
    /\ Len(prepLog) = 2

C20_Bounded ==
    /\ Len(runLog) <= iterations
    /\ \A a, b \in 1..Len(runLog) : a # b => runLog[a].run # runLog[b].run
    /\ \A a, b \in 1..Len(measured) : a # b => measured[a] # measured[b]
    /\ pc = "done" <=> exitStatus \in {0, 1}

\* C20: when every subprocess and the release lookup return, every campaign
\* of either mode ends, with exit status 0 or with the handler's exit status
\* 1; no revision gets more than `iterations` timed runs and no revision is
\* measured twice.
C20_Terminates ==
    /\ <>(pc = "done")
    /\ [](C20_Bounded)
    /\ [][pc = "done" => UNCHANGED vars]_vars

C20_Witness ==
    /\ pc = "done"
    /\ exitStatus = 0
    /\ measured = <<"main", PrBranch>>
    /\ Len(runLog) = iterations
    /\ runLog[iterations].run = iterations

====
